---- MODULE Spec2Model ----
(***************************************************************************)
(* Model of the EPL 2018-2019 dashboard (src/app.py): a Streamlit script   *)
(* that every session re-runs top to bottom on each interaction.  Reads go *)
(* through the memoized read_df (a process-wide cache keyed by SQL text    *)
(* and parameters); the one write is UPDATE Matches SET FTR, followed by a *)
(* cache clear and a rerun.                                                *)
(*                                                                         *)
(* Text values are sequences of one-character strings, so substring and    *)
(* pattern matching are computed character by character.  A DataFrame is a *)
(* sequence of row records.  A nullable SQL integer is a set: {} is NULL   *)
(* and {n} is the value n.                                                 *)
(***************************************************************************)
EXTENDS Integers, Sequences, FiniteSets, TLC

\* ------------------------------------------------------------------ bounds
\* Largest MatchID seeded into (and typed against) the Matches table.
MaxMatches == 2
\* Longest search text typed into the Browse tab.
MaxSearchLen == 2

\* ----------------------------------------------------------------- helpers
RECURSIVE SumSeq(_)
SumSeq(s) == IF s = <<>> THEN 0 ELSE Head(s) + SumSeq(Tail(s))

RECURSIVE SetToSeq(_)
\* The elements of a finite set of integers in increasing order.
SetToSeq(S) ==
  IF S = {} THEN <<>>
  ELSE LET m == CHOOSE x \in S : \A y \in S : x <= y
       IN <<m>> \o SetToSeq(S \ {m})

Range(s) == {s[i] : i \in 1..Len(s)}

Column(df, c) == [i \in 1..Len(df) |-> df[i][c]]

RECURSIVE InsertBy(_, _, _)
\* Insert row r into df, which is non-increasing in column c, after the
\* rows whose c is >= r[c] (a stable descending sort step).
InsertBy(df, r, c) ==
  IF df = <<>> THEN <<r>>
  ELSE IF Head(df)[c] >= r[c] THEN <<Head(df)>> \o InsertBy(Tail(df), r, c)
  ELSE <<r>> \o df

RECURSIVE OrderByDesc(_, _)
\* ORDER BY c DESC.  SQLite leaves the order of ties unspecified; here ties
\* keep their input order, and no checked formula reads the order of ties.
OrderByDesc(df, c) ==
  IF df = <<>> THEN <<>>
  ELSE InsertBy(OrderByDesc(SubSeq(df, 1, Len(df) - 1), c), df[Len(df)], c)

\* --------------------------------------------------------------- text data
LowerOf == [c \in {"A", "B", "C", "D"} |->
              CASE c = "A" -> "a" [] c = "B" -> "b" [] c = "C" -> "c" [] OTHER -> "d"]

\* Case folding of one character (re.IGNORECASE / case=False).
Lower(c) == IF c \in DOMAIN LowerOf THEN LowerOf[c] ELSE c

\* Characters a user types into the search box; "." is a regex metacharacter.
SearchAlphabet == {"a", "C", "."}

RECURSIVE TextsUpTo(_)
TextsUpTo(n) ==
  IF n = 0 THEN {<<>>}
  ELSE LET shorter == TextsUpTo(n - 1)
       IN shorter \cup {Append(t, c) : t \in shorter, c \in SearchAlphabet}

SearchTexts == TextsUpTo(MaxSearchLen)

\* One pattern character against one subject character under re.IGNORECASE:
\* "." matches any character (the names hold no newline), any other
\* character of SearchAlphabet matches itself up to case.
CharMatches(p, c) == p = "." \/ Lower(p) = Lower(c)

\* pandas Series.str.contains(pat, case=False): regex defaults to True, so
\* pat is searched as a regular expression (re.search) at every offset.
str_contains(name, pat) ==
  \E off \in 0..(Len(name) - Len(pat)) :
    \A i \in 1..Len(pat) : CharMatches(pat[i], name[off + i])

\* ------------------------------------------------------------- seeded data
FTR_TO_TEXT == [c \in {"H", "D", "A"} |->
                  CASE c = "H" -> "Home Win" [] c = "D" -> "Draw" [] OTHER -> "Away Win"]

TEXT_TO_FTR == [t \in {"Home Win", "Draw", "Away Win"} |->
                  CASE t = "Home Win" -> "H" [] t = "Draw" -> "D" [] OTHER -> "A"]

\* Teams and Referees reference tables (TeamID/RefereeID -> name).
SeedTeams == <<  <<"A", "b">>, <<"B", "a">>, <<"C", "c">>  >>
SeedReferees == <<  <<"D">>, <<"a", "c">>  >>

\* The seeded Matches row with MatchID i: home and away differ, every
\* foreign key references a seeded row, FTR follows the goals.
SeedMatch(i) ==
  LET hg == i % 3
      ag == (2 * i) % 3
  IN [MatchDate  |-> 20180810 + (i \div 2),
      HomeTeamID |-> ((i - 1) % 3) + 1,
      AwayTeamID |-> (i % 3) + 1,
      RefereeID  |-> ((i - 1) % 2) + 1,
      FTHG |-> hg, FTAG |-> ag,
      FTR  |-> IF hg > ag THEN "H" ELSE IF hg < ag THEN "A" ELSE "D",
      HY |-> (i % 2) + 1, AY |-> (i + 1) % 3, HR |-> i % 2, AR |-> (i \div 2) % 2]

\* The database file holding the seeded reference tables and the matches ids.
SeedDb(ids) ==
  [Teams    |-> SeedTeams,
   Referees |-> SeedReferees,
   Matches  |-> [i \in ids |-> SeedMatch(i)]]

\* ------------------------------------------------------------- SQL queries
\* Matches m JOIN Teams t1 JOIN Teams t2 JOIN Referees r (inner joins: a
\* match with a dangling key joins to nothing), in MatchID order.
JoinedRows(d) ==
  LET ok == {i \in DOMAIN d.Matches :
               /\ d.Matches[i].HomeTeamID \in DOMAIN d.Teams
               /\ d.Matches[i].AwayTeamID \in DOMAIN d.Teams
               /\ d.Matches[i].RefereeID \in DOMAIN d.Referees}
      ids == SetToSeq(ok)
  IN [k \in 1..Len(ids) |->
        LET m == d.Matches[ids[k]]
        IN [MatchID |-> ids[k], MatchDate |-> m.MatchDate,
            HomeTeam |-> d.Teams[m.HomeTeamID], AwayTeam |-> d.Teams[m.AwayTeamID],
            FTHG |-> m.FTHG, FTAG |-> m.FTAG, FTR |-> m.FTR,
            RefereeName |-> d.Referees[m.RefereeID],
            HY |-> m.HY, AY |-> m.AY, HR |-> m.HR, AR |-> m.AR]]

BASE_SQL(d) == OrderByDesc(JoinedRows(d), "MatchDate")

\* Mutant of GoalsTerm: only the home side's goals are summed.
GoalsTerm_HomeOnly(r) == r.FTHG

\* The per-row term of GOALS_SQL's SUM.
GoalsTerm(r) == r.FTHG + r.FTAG

\* SELECT t.TeamName, SUM(...) FROM Matches m JOIN Teams t ON m.HomeTeamID =
\* t.TeamID GROUP BY t.TeamName ORDER BY TotalGoals DESC.
GOALS_SQL(d) ==
  LET ids == SetToSeq({i \in DOMAIN d.Matches : d.Matches[i].HomeTeamID \in DOMAIN d.Teams})
      home == [k \in 1..Len(ids) |->
                 [TeamName |-> d.Teams[d.Matches[ids[k]].HomeTeamID],
                  FTHG |-> d.Matches[ids[k]].FTHG, FTAG |-> d.Matches[ids[k]].FTAG]]
      \* groups in order of first appearance
      firsts == SelectSeq([k \in 1..Len(home) |-> k],
                          LAMBDA k : \A j \in 1..(k - 1) : home[j].TeamName # home[k].TeamName)
      groups == [g \in 1..Len(firsts) |->
                   LET name == home[firsts[g]].TeamName
                       mine == SelectSeq(home, LAMBDA r : r.TeamName = name)
                   IN [TeamName |-> name,
                       TotalGoals |-> SumSeq([k \in 1..Len(mine) |-> GoalsTerm(mine[k])])]]
  IN OrderByDesc(groups, "TotalGoals")

\* SUM over the rows of a column: NULL ({}) over no rows.
SqlSum(vals) == IF vals = <<>> THEN {} ELSE {SumSeq(vals)}

\* The query of team_stats: one aggregate row, whatever the WHERE keeps.
STATS_SQL(d, team) ==
  LET rows == SelectSeq(JoinedRows(d), LAMBDA r : r.HomeTeam = team \/ r.AwayTeam = team)
  IN << [Matches      |-> Len(rows),
         GoalsFor     |-> SqlSum([k \in 1..Len(rows) |->
                            IF rows[k].HomeTeam = team THEN rows[k].FTHG ELSE rows[k].FTAG]),
         GoalsAgainst |-> SqlSum([k \in 1..Len(rows) |->
                            IF rows[k].HomeTeam = team THEN rows[k].FTAG ELSE rows[k].FTHG])] >>

\* Mutant of EXISTS_SQL: the WHERE clause is missing.
EXISTS_SQL_NoWhere(d, id) == IF DOMAIN d.Matches # {} THEN << [one |-> 1] >> ELSE <<>>

\* SELECT 1 FROM Matches WHERE MatchID = ? LIMIT 1.
EXISTS_SQL(d, id) == IF id \in DOMAIN d.Matches THEN << [one |-> 1] >> ELSE <<>>

\* verify_sql: the joined row of one match, without the card columns.
VERIFY_SQL(d, id) ==
  LET rows == SelectSeq(JoinedRows(d), LAMBDA r : r.MatchID = id)
  IN [k \in 1..Len(rows) |->
        [MatchID |-> rows[k].MatchID, MatchDate |-> rows[k].MatchDate,
         HomeTeam |-> rows[k].HomeTeam, AwayTeam |-> rows[k].AwayTeam,
         FTHG |-> rows[k].FTHG, FTAG |-> rows[k].FTAG, FTR |-> rows[k].FTR,
         RefereeName |-> rows[k].RefereeName]]

\* Mutant of UpdateFTR: the WHERE clause is missing.
UpdateFTR_NoWhere(matches, code, id) ==
  [i \in DOMAIN matches |-> [matches[i] EXCEPT !.FTR = code]]

\* UPDATE Matches SET FTR = ? WHERE MatchID = ?: the new table.
UpdateFTR(matches, code, id) ==
  [i \in DOMAIN matches |-> IF i = id THEN [matches[i] EXCEPT !.FTR = code] ELSE matches[i]]

\* cur.rowcount of that UPDATE.
RowCount(matches, id) == Cardinality({i \in DOMAIN matches : i = id})

\* ------------------------------------------------------------ view builder
NoSel == <<>>

\* teams = sorted(set(HomeTeam) | set(AwayTeam)); refs = sorted(unique referees).
\* Only membership is used here, so both are kept as sets.
TeamsOf(df) == Range(Column(df, "HomeTeam")) \cup Range(Column(df, "AwayTeam"))
RefsOf(df) == Range(Column(df, "RefereeName"))

\* if selected_team: keep rows with the team as home or away.
ApplyTeamFilter(df, team) ==
  IF team = NoSel THEN df
  ELSE SelectSeq(df, LAMBDA r : r.HomeTeam = team \/ r.AwayTeam = team)

\* if selected_ref: keep rows of that referee.
ApplyRefereeFilter(df, ref) ==
  IF ref = NoSel THEN df ELSE SelectSeq(df, LAMBDA r : r.RefereeName = ref)

\* if search: keep rows whose home team, away team or referee contains it.
ApplySearch(df, search) ==
  IF search = <<>> THEN df
  ELSE SelectSeq(df, LAMBDA r : \/ str_contains(r.HomeTeam, search)
                                \/ str_contains(r.AwayTeam, search)
                                \/ str_contains(r.RefereeName, search))

\* FTR.map(FTR_TO_TEXT).fillna(FTR): unknown codes pass through.
ResultLabel(code) == IF code \in DOMAIN FTR_TO_TEXT THEN FTR_TO_TEXT[code] ELSE code

\* round(x, 2) of the quotient n/d, in hundredths, ties to even.
RoundHundredths(n, d) ==
  LET q == (100 * n) \div d
      r == (100 * n) % d
  IN IF 2 * r > d \/ (2 * r = d /\ q % 2 = 1) THEN q + 1 ELSE q

\* Mutant of CardsTerm: the red cards are left out.
CardsTerm_NoReds(r) == r.HY + r.AY

\* The card total of one row.
CardsTerm(r) == r.HY + r.AY + r.HR + r.AR

\* The five KPI metrics; avg_goals in hundredths.
ComputeKPIs(df) ==
  LET total_matches == Len(df)
      total_goals == SumSeq([k \in 1..Len(df) |-> df[k].FTHG + df[k].FTAG])
  IN [total_matches |-> total_matches,
      unique_teams  |-> Cardinality(TeamsOf(df)),
      total_goals   |-> total_goals,
      total_cards   |-> SumSeq([k \in 1..Len(df) |-> CardsTerm(df[k])]),
      avg_goals     |-> IF total_matches # 0
                        THEN RoundHundredths(total_goals, total_matches) ELSE 0]

\* Browse shows df_show[cols].head(rows); the slider's least value.
SliderMin == 25

\* df.head(n).
HeadRows(df, n) == IF Len(df) <= n THEN df ELSE SubSeq(df, 1, n)

\* ------------------------------------------------------------------- state
AllSessions == {"s1", "s2"}

VARIABLES
  db,         \* the SQLite file: Teams, Referees, Matches
  cache,      \* st.cache_data of read_df: key -> memoized DataFrame
  env,        \* what the users of this run do: sessions and widget inputs
  pc,         \* per session: the script line the run has reached
  phase,      \* per session, at a read_df call: "call", "fetched", "ret"
  ret,        \* per session: the DataFrame read_df has fetched / returned
  df_all,     \* per session: script local df_all
  view,       \* per session: sidebar selection, df_view, KPIs, search, df_show
  df_goals,   \* per session: script local df_goals
  cmp,        \* per session: team_a, team_b and the rows a, b of team_stats
  crud,       \* per session: match_id, new_ftr_code, rowcount, verify_id
  df_updated, \* per session: script local df_updated
  outcome,    \* per session: the message the last run reported
  fresh,      \* history: the returned read equalled storage when it returned
  overlap,    \* history: an update was in progress at some point of the read
  lastWrite   \* history: the last UPDATE that changed a row

vars == <<db, cache, env, pc, phase, ret, df_all, view, df_goals, cmp, crud,
          df_updated, outcome, fresh, overlap, lastWrite>>

locals == <<df_all, view, df_goals, cmp, crud, df_updated>>
history == <<fresh, overlap, lastWrite>>

\* ------------------------------------------------------------------- cache
Key(q, team, id) == [q |-> q, team |-> team, id |-> id]

EmptyCache == [k \in {} |-> <<>>]

\* The memoized function's body: pd.read_sql_query(sql, conn, params).
RunQuery(d, k) ==
  CASE k.q = "BASE"   -> BASE_SQL(d)
    [] k.q = "GOALS"  -> GOALS_SQL(d)
    [] k.q = "STATS"  -> STATS_SQL(d, k.team)
    [] k.q = "EXISTS" -> EXISTS_SQL(d, k.id)
    [] OTHER          -> VERIFY_SQL(d, k.id)

\* The decorator stores the value under (sql, params).
CachePut(c, k, v) == [x \in DOMAIN c \cup {k} |-> IF x = k THEN v ELSE c[x]]

\* Mutant of CacheClear: the clear after a write is lost.
CacheClear_Kept(c) == c

\* st.cache_data.clear().
CacheClear(c) == EmptyCache

ReadSites == {"load", "goals", "stats_a", "stats_b", "exists", "verify"}

\* The (sql, params) of the read_df call a session stands at.
KeyAt(s) ==
  CASE pc[s] = "load"    -> Key("BASE", NoSel, 0)
    [] pc[s] = "goals"   -> Key("GOALS", NoSel, 0)
    [] pc[s] = "stats_a" -> Key("STATS", cmp[s].team_a, 0)
    [] pc[s] = "stats_b" -> Key("STATS", cmp[s].team_b, 0)
    [] pc[s] = "exists"  -> Key("EXISTS", NoSel, crud[s].match_id)
    [] OTHER             -> Key("VERIFY", NoSel, crud[s].verify_id)

\* Sessions whose UPDATE has committed and whose cache clear is still to come.
Writers == {t \in AllSessions : pc[t] = "updated"}

\* ---------------------------------------------------------- script locals
NoView == [team |-> NoSel, ref |-> NoSel, df_view |-> <<>>,
           kpis |-> ComputeKPIs(<<>>), search |-> <<>>, df_show |-> <<>>]
NoStats == [Matches |-> 0, GoalsFor |-> {}, GoalsAgainst |-> {}]
NoCmp == [team_a |-> NoSel, team_b |-> NoSel, a |-> NoStats, b |-> NoStats]
NoCrud == [match_id |-> 0, code |-> "-", rowcount |-> -1, verify_id |-> 0]
NoWrite == [by |-> "-", id |-> 0, code |-> "-", cached |-> FALSE]

\* A run starts with no script locals.
FreshLocals(s) ==
  /\ df_all' = [df_all EXCEPT ![s] = <<>>]
  /\ view' = [view EXCEPT ![s] = NoView]
  /\ df_goals' = [df_goals EXCEPT ![s] = <<>>]
  /\ cmp' = [cmp EXCEPT ![s] = NoCmp]
  /\ crud' = [crud EXCEPT ![s] = NoCrud]
  /\ df_updated' = [df_updated EXCEPT ![s] = <<>>]

StartState(d, e) ==
  /\ db = d
  /\ env = e
  /\ cache = EmptyCache
  /\ pc = [s \in AllSessions |-> "idle"]
  /\ phase = [s \in AllSessions |-> "-"]
  /\ ret = [s \in AllSessions |-> <<>>]
  /\ df_all = [s \in AllSessions |-> <<>>]
  /\ view = [s \in AllSessions |-> NoView]
  /\ df_goals = [s \in AllSessions |-> <<>>]
  /\ cmp = [s \in AllSessions |-> NoCmp]
  /\ crud = [s \in AllSessions |-> NoCrud]
  /\ df_updated = [s \in AllSessions |-> <<>>]
  /\ outcome = [s \in AllSessions |-> "none"]
  /\ fresh = [s \in AllSessions |-> TRUE]
  /\ overlap = [s \in AllSessions |-> FALSE]
  /\ lastWrite = NoWrite

\* ------------------------------------------------------------ read_df call
\* st.cache_data looks the key up; on a miss it runs the function body and
\* then stores the value.  The body and the store are separate steps, so
\* another session's commit or cache clear can fall between them.
\* Cache hit: the memoized DataFrame is returned, storage is not queried.
ReadHit(s) ==
  /\ pc[s] \in ReadSites /\ phase[s] = "call"
  /\ KeyAt(s) \in DOMAIN cache
  /\ ret' = [ret EXCEPT ![s] = cache[KeyAt(s)]]
  /\ phase' = [phase EXCEPT ![s] = "ret"]
  /\ fresh' = [fresh EXCEPT ![s] = (cache[KeyAt(s)] = RunQuery(db, KeyAt(s)))]
  /\ overlap' = [overlap EXCEPT ![s] = (Writers # {})]
  /\ UNCHANGED <<db, cache, env, pc, locals, outcome, lastWrite>>

\* Cache miss, first half: a fresh connection runs the query.
ReadQuery(s) ==
  /\ pc[s] \in ReadSites /\ phase[s] = "call"
  /\ KeyAt(s) \notin DOMAIN cache
  /\ ret' = [ret EXCEPT ![s] = RunQuery(db, KeyAt(s))]
  /\ phase' = [phase EXCEPT ![s] = "fetched"]
  /\ overlap' = [overlap EXCEPT ![s] = (Writers # {})]
  /\ UNCHANGED <<db, cache, env, pc, locals, outcome, fresh, lastWrite>>

\* Cache miss, second half: the fetched DataFrame is memoized and returned.
ReadStore(s) ==
  /\ pc[s] \in ReadSites /\ phase[s] = "fetched"
  /\ cache' = CachePut(cache, KeyAt(s), ret[s])
  /\ phase' = [phase EXCEPT ![s] = "ret"]
  /\ fresh' = [fresh EXCEPT ![s] = (ret[s] = RunQuery(db, KeyAt(s)))]
  /\ UNCHANGED <<db, env, pc, ret, locals, outcome, overlap, lastWrite>>

\* ------------------------------------------------------------- the script
\* A widget interaction (or a page load) starts a run of the script.  Widget
\* values are drawn where the script reads them: the user may have changed
\* any of them since the previous run.
Interact(s) ==
  /\ s \in env.sessions
  /\ pc[s] = "idle"
  /\ pc' = [pc EXCEPT ![s] = "load"]
  /\ phase' = [phase EXCEPT ![s] = "call"]
  /\ UNCHANGED <<db, cache, env, ret, locals, outcome, history>>

\* What the sidebar offers: no filter, a team of df_all, a referee of df_all.
\* A selectbox over no options returns None.
Selections(df, modes) ==
  {<<NoSel, NoSel>> : m \in modes \cap {"None"}}
    \cup {<<t, NoSel>> : t \in IF "Team" \in modes
                                THEN (IF TeamsOf(df) = {} THEN {NoSel} ELSE TeamsOf(df))
                                ELSE {}}
    \cup {<<NoSel, r>> : r \in IF "Referee" \in modes
                                THEN (IF RefsOf(df) = {} THEN {NoSel} ELSE RefsOf(df))
                                ELSE {}}

\* Mutant of KpiRows: the KPIs are computed from the unfiltered base set.
KpiRows_All(all, filtered) == all

\* The rows the KPI block is computed from.
KpiRows(all, filtered) == filtered

\* df_all = read_df(BASE_SQL); sidebar; "Reset filters" clears the cache and
\* reruns; otherwise the filters give df_view and the KPIs are computed.
AfterLoad(s) ==
  /\ pc[s] = "load" /\ phase[s] = "ret"
  /\ \E sel \in Selections(ret[s], env.modes), reset \in env.resets :
       IF reset
       THEN /\ cache' = CacheClear(cache)
            /\ pc' = [pc EXCEPT ![s] = "load"]
            /\ phase' = [phase EXCEPT ![s] = "call"]
            /\ FreshLocals(s)
       ELSE LET df_view == ApplyRefereeFilter(ApplyTeamFilter(ret[s], sel[1]), sel[2])
            IN /\ df_all' = [df_all EXCEPT ![s] = ret[s]]
               /\ view' = [view EXCEPT ![s] =
                             [team |-> sel[1], ref |-> sel[2], df_view |-> df_view,
                              kpis |-> ComputeKPIs(KpiRows(ret[s], df_view)),
                              search |-> <<>>, df_show |-> <<>>]]
               /\ pc' = [pc EXCEPT ![s] = "browse"]
               /\ phase' = [phase EXCEPT ![s] = "-"]
               /\ UNCHANGED <<cache, df_goals, cmp, crud, df_updated>>
  /\ UNCHANGED <<db, env, ret, outcome, history>>

\* df_show: df_view with Score (kept as the pair it is formatted from) and
\* Full-Time Result attached.
AddDisplayFields(df) ==
  [k \in 1..Len(df) |->
     [MatchID |-> df[k].MatchID, MatchDate |-> df[k].MatchDate,
      HomeTeam |-> df[k].HomeTeam, AwayTeam |-> df[k].AwayTeam,
      FTHG |-> df[k].FTHG, FTAG |-> df[k].FTAG, FTR |-> df[k].FTR,
      RefereeName |-> df[k].RefereeName,
      HY |-> df[k].HY, AY |-> df[k].AY, HR |-> df[k].HR, AR |-> df[k].AR,
      Score |-> <<df[k].FTHG, df[k].FTAG>>,
      FullTimeResult |-> ResultLabel(df[k].FTR)]]

\* The Browse tab: the search box narrows df_show, the table shows its head.
Browse(s) ==
  /\ pc[s] = "browse"
  /\ \E search \in env.searches :
       view' = [view EXCEPT ![s].search = search,
                            ![s].df_show =
                               HeadRows(ApplySearch(AddDisplayFields(view[s].df_view), search),
                                        SliderMin)]
  /\ pc' = [pc EXCEPT ![s] = "goals"]
  /\ phase' = [phase EXCEPT ![s] = "call"]
  /\ UNCHANGED <<db, cache, env, ret, df_all, df_goals, cmp, crud, df_updated,
                 outcome, history>>

\* df_goals = read_df(GOALS_SQL) is charted; the Compare tab then takes its
\* two teams from the select boxes over teams (teams[0] raises on no teams).
AfterGoals(s) ==
  /\ pc[s] = "goals" /\ phase[s] = "ret"
  /\ df_goals' = [df_goals EXCEPT ![s] = ret[s]]
  /\ view' = [view EXCEPT ![s] = NoView]
  /\ IF TeamsOf(df_all[s]) = {}
     THEN /\ outcome' = [outcome EXCEPT ![s] = "exception"]
          /\ pc' = [pc EXCEPT ![s] = "done"]
          /\ phase' = [phase EXCEPT ![s] = "-"]
          /\ UNCHANGED cmp
     ELSE /\ \E ta \in TeamsOf(df_all[s]) \cap env.compare,
                tb \in TeamsOf(df_all[s]) \cap env.compare :
               cmp' = [cmp EXCEPT ![s].team_a = ta, ![s].team_b = tb]
          /\ pc' = [pc EXCEPT ![s] = "stats_a"]
          /\ phase' = [phase EXCEPT ![s] = "call"]
          /\ UNCHANGED outcome
  /\ UNCHANGED <<db, cache, env, ret, df_all, crud, df_updated, history>>

\* a = team_stats(team_a).
AfterStatsA(s) ==
  /\ pc[s] = "stats_a" /\ phase[s] = "ret"
  /\ cmp' = [cmp EXCEPT ![s].a = ret[s][1]]
  /\ pc' = [pc EXCEPT ![s] = "stats_b"]
  /\ phase' = [phase EXCEPT ![s] = "call"]
  /\ UNCHANGED <<db, cache, env, ret, df_all, view, df_goals, crud, df_updated,
                 outcome, history>>

\* int(x) of a nullable SQL integer raises on NULL.
IntFails(x) == x = {}

\* The six metrics of the Compare tab: int() of every field of a and b.
MetricsFail(a, b) ==
  \/ IntFails(a.GoalsFor) \/ IntFails(a.GoalsAgainst)
  \/ IntFails(b.GoalsFor) \/ IntFails(b.GoalsAgainst)

\* b = team_stats(team_b), then the metrics are rendered.
AfterStatsB(s) ==
  /\ pc[s] = "stats_b" /\ phase[s] = "ret"
  /\ cmp' = [cmp EXCEPT ![s].b = ret[s][1]]
  /\ IF MetricsFail(cmp[s].a, ret[s][1])
     THEN /\ outcome' = [outcome EXCEPT ![s] = "exception"]
          /\ pc' = [pc EXCEPT ![s] = "done"]
     ELSE /\ pc' = [pc EXCEPT ![s] = "crud"]
          /\ UNCHANGED outcome
  /\ phase' = [phase EXCEPT ![s] = "-"]
  /\ UNCHANGED <<db, cache, env, ret, df_all, view, df_goals, crud, df_updated, history>>

\* The CRUD tab's inputs; a click on "Update Match Result" starts the
\* existence check, otherwise the script goes on to the verify block.
Crud(s) ==
  /\ pc[s] = "crud"
  /\ \E id \in env.ids, label \in env.labels, clicked \in BOOLEAN :
       /\ crud' = [crud EXCEPT ![s].match_id = id, ![s].code = TEXT_TO_FTR[label]]
       /\ pc' = [pc EXCEPT ![s] = IF clicked THEN "exists" ELSE "verify_input"]
       /\ phase' = [phase EXCEPT ![s] = IF clicked THEN "call" ELSE "-"]
  /\ UNCHANGED <<db, cache, env, ret, df_all, view, df_goals, cmp, df_updated,
                 outcome, history>>

\* The branch on exists_df.empty.
ExistsEmpty(df) == df = <<>>

\* exists_df = read_df(exists_sql, (match_id,)): not found, or go on to write.
AfterExists(s) ==
  /\ pc[s] = "exists" /\ phase[s] = "ret"
  /\ IF ExistsEmpty(ret[s])
     THEN /\ outcome' = [outcome EXCEPT ![s] = "not_found"]
          /\ pc' = [pc EXCEPT ![s] = "verify_input"]
     ELSE /\ pc' = [pc EXCEPT ![s] = "update"]
          /\ UNCHANGED outcome
  /\ phase' = [phase EXCEPT ![s] = "-"]
  /\ UNCHANGED <<db, cache, env, ret, locals, history>>

\* run_update: a fresh connection executes the UPDATE and commits.
RunUpdate(s) ==
  /\ pc[s] = "update"
  /\ db' = [db EXCEPT !.Matches = UpdateFTR(db.Matches, crud[s].code, crud[s].match_id)]
  /\ crud' = [crud EXCEPT ![s].rowcount = RowCount(db.Matches, crud[s].match_id)]
  /\ pc' = [pc EXCEPT ![s] = "updated"]
  /\ overlap' = [t \in AllSessions |-> overlap[t] \/ phase[t] = "fetched"]
  /\ lastWrite' = IF RowCount(db.Matches, crud[s].match_id) = 0 THEN lastWrite
                  ELSE [by |-> s, id |-> crud[s].match_id, code |-> crud[s].code,
                        cached |-> Key("VERIFY", NoSel, crud[s].match_id) \in DOMAIN cache]
  /\ UNCHANGED <<cache, env, phase, ret, df_all, view, df_goals, cmp, df_updated,
                 outcome, fresh>>

\* rowcount == 0: a warning; otherwise the cache is cleared, success is
\* reported and the script reruns from the top.
AfterUpdate(s) ==
  /\ pc[s] = "updated"
  /\ IF crud[s].rowcount = 0
     THEN /\ outcome' = [outcome EXCEPT ![s] = "warning"]
          /\ pc' = [pc EXCEPT ![s] = "verify_input"]
          /\ UNCHANGED <<cache, phase, locals>>
     ELSE /\ cache' = CacheClear(cache)
          /\ outcome' = [outcome EXCEPT ![s] = "success"]
          /\ pc' = [pc EXCEPT ![s] = "load"]
          /\ phase' = [phase EXCEPT ![s] = "call"]
          /\ FreshLocals(s)
  /\ UNCHANGED <<db, env, ret, history>>

\* The "Verify MatchID" input.
VerifyInput(s) ==
  /\ pc[s] = "verify_input"
  /\ \E id \in env.ids : crud' = [crud EXCEPT ![s].verify_id = id]
  /\ pc' = [pc EXCEPT ![s] = "verify"]
  /\ phase' = [phase EXCEPT ![s] = "call"]
  /\ UNCHANGED <<db, cache, env, ret, df_all, view, df_goals, cmp, df_updated,
                 outcome, history>>

\* df_updated = read_df(verify_sql, (verify_id,)) is shown with its label.
AfterVerify(s) ==
  /\ pc[s] = "verify" /\ phase[s] = "ret"
  /\ df_updated' = [df_updated EXCEPT ![s] =
                      [k \in 1..Len(ret[s]) |->
                         [MatchID |-> ret[s][k].MatchID, FTHG |-> ret[s][k].FTHG,
                          FTAG |-> ret[s][k].FTAG,
                          FullTimeResult |-> ResultLabel(ret[s][k].FTR)]]]
  /\ pc' = [pc EXCEPT ![s] = "done"]
  /\ phase' = [phase EXCEPT ![s] = "-"]
  /\ UNCHANGED <<db, cache, env, ret, df_all, view, df_goals, cmp, crud, outcome, history>>

\* The run is over (its last line, or an uncaught exception): its locals
\* are gone, and the session waits for the next interaction.
EndRun(s) ==
  /\ pc[s] = "done"
  /\ pc' = [pc EXCEPT ![s] = "idle"]
  /\ FreshLocals(s)
  /\ ret' = [ret EXCEPT ![s] = <<>>]
  /\ outcome' = [outcome EXCEPT ![s] = "none"]
  /\ fresh' = [fresh EXCEPT ![s] = TRUE]
  /\ overlap' = [overlap EXCEPT ![s] = FALSE]
  /\ UNCHANGED <<db, cache, env, phase, lastWrite>>

Next ==
  \E s \in AllSessions :
    \/ Interact(s)
    \/ ReadHit(s)
    \/ ReadQuery(s)
    \/ ReadStore(s)
    \/ AfterLoad(s)
    \/ Browse(s)
    \/ AfterGoals(s)
    \/ AfterStatsA(s)
    \/ AfterStatsB(s)
    \/ Crud(s)
    \/ AfterExists(s)
    \/ RunUpdate(s)
    \/ AfterUpdate(s)
    \/ VerifyInput(s)
    \/ AfterVerify(s)
    \/ EndRun(s)

\* --------------------------------------------------------- specifications
AllModes == {"None", "Team", "Referee"}
AllLabels == {"Home Win", "Draw", "Away Win"}
MatchIds == 1..MaxMatches
SeedDbs == {SeedDb(ids) : ids \in SUBSET MatchIds}
TeamA == SeedTeams[1]
TeamB == SeedTeams[2]

\* One session over the fully seeded database, typing existing ids and one
\* that does not exist, clicking every button; the sidebar filter and the
\* search box are left alone (ViewSpec exercises them).
Init ==
  StartState(SeedDb(MatchIds),
             [sessions |-> {"s1"}, modes |-> {"None"}, resets |-> BOOLEAN,
              searches |-> {<<>>}, compare |-> {TeamA},
              ids |-> 1..(MaxMatches + 1), labels |-> AllLabels])

Spec == Init /\ [][Next]_vars

\* One session over every seeded database, with every sidebar filter and
\* every search text; one match id and one label are used for updates.
InitView ==
  \E d \in SeedDbs :
    StartState(d, [sessions |-> {"s1"}, modes |-> AllModes, resets |-> {FALSE},
                   searches |-> SearchTexts, compare |-> {TeamA},
                   ids |-> {1}, labels |-> {"Draw"}])

ViewSpec == InitView /\ [][Next]_vars

\* Two sessions sharing the database file and the process-wide cache; both
\* update and verify match 1.
InitConc ==
  StartState(SeedDb({1}),
             [sessions |-> {"s1", "s2"}, modes |-> {"None"}, resets |-> {FALSE},
              searches |-> {<<>>}, compare |-> {TeamA},
              ids |-> {1}, labels |-> {"Home Win", "Draw"}])

ConcSpec == InitConc /\ [][Next]_vars

\* ------------------------------------------- team_stats as a pure function
\* Team names team_stats is applied to: the seeded teams and a name that is
\* in no table.
NoSuchTeam == <<"a", "a">>
TeamNameInputs == Range(SeedTeams) \cup {NoSuchTeam}

InitFn ==
  \E d \in SeedDbs :
    /\ StartState(d, [sessions |-> {}, modes |-> {}, resets |-> {}, searches |-> {},
                      compare |-> TeamNameInputs, ids |-> {}, labels |-> {}])

\* a = team_stats(team_a); b = team_stats(team_b), on an empty cache.
FnTeamStats ==
  /\ pc["s1"] = "idle"
  /\ \E ta \in env.compare, tb \in env.compare :
       cmp' = [cmp EXCEPT !["s1"] = [team_a |-> ta, team_b |-> tb,
                                     a |-> STATS_SQL(db, ta)[1],
                                     b |-> STATS_SQL(db, tb)[1]]]
  /\ pc' = [pc EXCEPT !["s1"] = "metrics"]
  /\ UNCHANGED <<db, cache, env, phase, ret, df_all, view, df_goals, crud,
                 df_updated, outcome, history>>

\* The six st.metric calls on a and b.
FnMetrics ==
  /\ pc["s1"] = "metrics"
  /\ outcome' = [outcome EXCEPT !["s1"] =
                   IF MetricsFail(cmp["s1"].a, cmp["s1"].b) THEN "exception" ELSE "rendered"]
  /\ pc' = [pc EXCEPT !["s1"] = "shown"]
  /\ UNCHANGED <<db, cache, env, phase, ret, locals, history>>

\* The next call starts from scratch.
FnReset ==
  /\ pc["s1"] = "shown"
  /\ pc' = [pc EXCEPT !["s1"] = "idle"]
  /\ cmp' = [cmp EXCEPT !["s1"] = NoCmp]
  /\ outcome' = [outcome EXCEPT !["s1"] = "none"]
  /\ UNCHANGED <<db, cache, env, phase, ret, df_all, view, df_goals, crud,
                 df_updated, history>>

NextFn == FnTeamStats \/ FnMetrics \/ FnReset

FnSpec == InitFn /\ [][NextFn]_vars

\* ------------------------------------------------------------------ claims
Existing(id) == id \in DOMAIN db.Matches

\* C1: in one session, once an update has committed and cleared the cache,
\* every memoized entry and every DataFrame read_df returns equals the result
\* of its query on the current storage, never a result cached before the
\* update.
C1_ReadsFreshAfterUpdate ==
  (lastWrite.by # "-" /\ Writers = {}) =>
    /\ \A k \in DOMAIN cache : cache[k] = RunQuery(db, k)
    /\ \A s \in AllSessions : phase[s] = "ret" => ret[s] = RunQuery(db, KeyAt(s))

\* A verify read of the updated match, cached before the update, returns the
\* new code after it.
C1_Witness ==
  \E s \in AllSessions :
    /\ pc[s] = "verify" /\ phase[s] = "ret"
    /\ lastWrite.by = s /\ lastWrite.cached
    /\ crud[s].verify_id = lastWrite.id
    /\ ret[s] # <<>>
    /\ ret[s][1].FTR = lastWrite.code
    /\ lastWrite.code # SeedMatch(lastWrite.id).FTR

OtherFields == {"MatchDate", "HomeTeamID", "AwayTeamID", "RefereeID",
                "FTHG", "FTAG", "HY", "AY", "HR", "AR"}

\* C2: storage changes only by the UPDATE of an existing match; that step
\* sets the match's FTR to the chosen code and leaves its other fields, every
\* other match, the Teams and Referees tables and the set of match ids as
\* they were; and a verify read of that match then returns one row with the
\* code.
C2_UpdateSetsOnlyFTR ==
  [][/\ db' # db =>
          \E s \in AllSessions :
            LET id == crud[s].match_id
            IN /\ pc[s] = "update" /\ pc'[s] = "updated"
               /\ Existing(id)
               /\ crud[s].code \in {"H", "D", "A"}
               /\ db'.Teams = db.Teams /\ db'.Referees = db.Referees
               /\ DOMAIN db'.Matches = DOMAIN db.Matches
               /\ \A i \in DOMAIN db.Matches \ {id} : db'.Matches[i] = db.Matches[i]
               /\ \A f \in OtherFields : db'.Matches[id][f] = db.Matches[id][f]
               /\ db'.Matches[id].FTR = crud[s].code
     /\ \A s \in AllSessions :
          (/\ pc'[s] = "verify" /\ phase'[s] = "ret"
           /\ lastWrite'.by = s /\ crud'[s].verify_id = lastWrite'.id) =>
            /\ Len(ret'[s]) = 1
            /\ ret'[s][1].FTR = lastWrite'.code
            /\ ret'[s][1].FTHG = SeedMatch(lastWrite'.id).FTHG
            /\ ret'[s][1].FTAG = SeedMatch(lastWrite'.id).FTAG
    ]_vars

\* After an update to Draw, the verify read shows Draw beside unequal goals,
\* and another match keeps a different code.
C2_Witness ==
  \E s \in AllSessions :
    /\ pc[s] = "verify" /\ phase[s] = "ret"
    /\ lastWrite.by = s /\ lastWrite.code = "D"
    /\ crud[s].verify_id = lastWrite.id
    /\ ret[s] # <<>> /\ ret[s][1].FTR = "D" /\ ret[s][1].FTHG # ret[s][1].FTAG
    /\ \E i \in DOMAIN db.Matches : db.Matches[i].FTR # "D"

\* C3: while a session is in the update flow for an id that references no
\* match, storage does not change and no memoized entry is dropped or
\* altered; the flow leaves the existence check only for the verify block,
\* reporting not-found; success and the zero-rows warning are reported only
\* out of an executed UPDATE.
C3_MissingIdNotFound ==
  [][\A s \in AllSessions :
       /\ (pc[s] = "exists" /\ ~Existing(crud[s].match_id)) =>
            /\ db' = db
            /\ \A k \in DOMAIN cache : k \in DOMAIN cache' /\ cache'[k] = cache[k]
            /\ pc'[s] \in {"exists", "verify_input"}
            /\ outcome'[s] = IF pc'[s] = "verify_input" THEN "not_found" ELSE outcome[s]
       /\ (outcome'[s] \in {"success", "warning"} /\ outcome'[s] # outcome[s]) =>
            pc[s] = "updated"
       /\ pc'[s] \in {"update", "updated"} => Existing(crud'[s].match_id)
    ]_vars

\* The flow has reported not-found for a missing id.
C3_Witness ==
  \E s \in AllSessions :
    /\ outcome[s] = "not_found"
    /\ pc[s] = "verify_input"
    /\ ~Existing(crud[s].match_id)

\* The rows of df that pass the sidebar selection of a view.
SidebarRows(df, v) ==
  SelectSeq(df, LAMBDA r : /\ (v.team = NoSel \/ r.HomeTeam = v.team \/ r.AwayTeam = v.team)
                           /\ (v.ref = NoSel \/ r.RefereeName = v.ref))

MatchIdsOf(df) == {df[k].MatchID : k \in 1..Len(df)}

GoalsOf(df) == SumSeq(Column(df, "FTHG")) + SumSeq(Column(df, "FTAG"))

CardsOf(df) ==
  SumSeq(Column(df, "HY")) + SumSeq(Column(df, "AY"))
    + SumSeq(Column(df, "HR")) + SumSeq(Column(df, "AR"))

\* C4 as stated: the KPIs shown are those of the rows left after the sidebar
\* filter and the search, the rows of the Browse table.
C4_KpisOfSearchedRows ==
  \A s \in AllSessions :
    pc[s] = "goals" =>
      /\ view[s].kpis.total_matches = Len(view[s].df_show)
      /\ view[s].kpis.total_goals = GoalsOf(view[s].df_show)
      /\ view[s].kpis.total_cards = CardsOf(view[s].df_show)
      /\ view[s].kpis.unique_teams = Cardinality(TeamsOf(view[s].df_show))

\* C4 amended: the KPIs shown are those of the rows of df_all that pass the
\* team/referee selection, whatever the search text; the Browse table holds
\* the rows of that set that the search keeps.
C4_KpisOfSidebarRows ==
  \A s \in AllSessions :
    pc[s] \in {"browse", "goals"} =>
      LET rows == SidebarRows(df_all[s], view[s])
      IN /\ view[s].kpis.total_matches = Len(rows)
         /\ view[s].kpis.total_goals = GoalsOf(rows)
         /\ view[s].kpis.total_cards = CardsOf(rows)
         /\ view[s].kpis.unique_teams = Cardinality(TeamsOf(rows))
         /\ pc[s] = "goals" => MatchIdsOf(view[s].df_show) \subseteq MatchIdsOf(rows)

\* A team filter that drops a row of df_all and a search that drops a
\* further row, with the KPIs on screen.
C4_Witness ==
  \E s \in AllSessions :
    /\ pc[s] = "goals"
    /\ view[s].team # NoSel
    /\ Len(view[s].df_show) < Len(view[s].df_view)
    /\ Len(view[s].df_view) < Len(df_all[s])
    /\ view[s].kpis.total_matches = Len(view[s].df_view)

\* C5 as stated: team_stats of a name that is in no match gives the row
\* (0, 0, 0), and the metrics that consume it are rendered.
C5_NoMatchTeamZeroRow ==
  (pc["s1"] \in {"metrics", "shown"}
     /\ \A k \in 1..Len(JoinedRows(db)) :
          /\ JoinedRows(db)[k].HomeTeam # cmp["s1"].team_a
          /\ JoinedRows(db)[k].AwayTeam # cmp["s1"].team_a) =>
    /\ cmp["s1"].a = [Matches |-> 0, GoalsFor |-> {0}, GoalsAgainst |-> {0}]
    /\ pc["s1"] = "shown" => outcome["s1"] = "rendered"

\* text is a literal substring of name, up to case.
LiteralContains(name, text) ==
  \E off \in 0..(Len(name) - Len(text)) :
    \A i \in 1..Len(text) : Lower(text[i]) = Lower(name[off + i])

\* C6 as stated: with a team selected, the Browse rows are exactly the rows
\* of df_all that have the team as home or away and, for a non-empty search
\* text, hold it as a case-insensitive literal substring of the home-team,
\* away-team or referee name.
C6_TeamAndLiteralSearch ==
  \A s \in AllSessions :
    (pc[s] = "goals" /\ view[s].team # NoSel) =>
      LET text == view[s].search
          want == SelectSeq(df_all[s],
                    LAMBDA r : /\ (r.HomeTeam = view[s].team \/ r.AwayTeam = view[s].team)
                               /\ \/ text = <<>>
                                  \/ LiteralContains(r.HomeTeam, text)
                                  \/ LiteralContains(r.AwayTeam, text)
                                  \/ LiteralContains(r.RefereeName, text))
      IN /\ MatchIdsOf(view[s].df_show) = MatchIdsOf(want)
         /\ Len(view[s].df_show) = Len(want)

\* The matches of storage whose home side is the team named name.
HomeMatches(name) ==
  {i \in DOMAIN db.Matches : db.Teams[db.Matches[i].HomeTeamID] = name}

RECURSIVE SumOver(_, _)
\* The sum of f[i] over the finite set S.
SumOver(S, f) ==
  IF S = {} THEN 0
  ELSE LET i == CHOOSE x \in S : TRUE IN f[i] + SumOver(S \ {i}, f)

HomeSideNames == {db.Teams[db.Matches[i].HomeTeamID] : i \in DOMAIN db.Matches}

GoalRowsShape(g) ==
  /\ \A n \in HomeSideNames : Cardinality({k \in 1..Len(g) : g[k].TeamName = n}) = 1
  /\ \A k \in 1..Len(g) : g[k].TeamName \in HomeSideNames
  /\ \A k \in 1..(Len(g) - 1) : g[k].TotalGoals >= g[k + 1].TotalGoals

C8_KpiValues ==
  \A s \in AllSessions :
    pc[s] \in {"browse", "goals"} =>
      LET rows == view[s].df_view
          k == view[s].kpis
      IN /\ rows = <<>> =>
              k = [total_matches |-> 0, unique_teams |-> 0, total_goals |-> 0,
                   total_cards |-> 0, avg_goals |-> 0]
         /\ k.total_matches = Len(rows)
         /\ k.unique_teams =
              Cardinality({rows[i].HomeTeam : i \in 1..Len(rows)}
                            \cup {rows[i].AwayTeam : i \in 1..Len(rows)})
         /\ k.total_goals = GoalsOf(rows)
         /\ k.total_cards = CardsOf(rows)
         /\ rows # <<>> =>
              /\ 2 * (100 * k.total_goals - k.avg_goals * Len(rows)) <= Len(rows)
              /\ 2 * (k.avg_goals * Len(rows) - 100 * k.total_goals) <= Len(rows)

\* The KPIs of an empty view are on screen.
C8_Witness ==
  \E s \in AllSessions :
    /\ pc[s] = "browse"
    /\ df_all[s] = <<>> /\ view[s].df_view = <<>>
    /\ view[s].kpis.total_matches = 0 /\ view[s].kpis.avg_goals = 0

\* C9 as stated: the existence check is never answered from the cache, and
\* from the moment a session's existence check has queried storage until its
\* UPDATE has executed, no step of another session changes storage.
C9_CheckAndWriteOneTransaction ==
  [][\A s \in AllSessions :
       /\ ~(pc[s] = "exists" /\ phase[s] = "call" /\ phase'[s] = "ret")
       /\ (/\ (pc[s] = "exists" /\ phase[s] \in {"fetched", "ret"}) \/ pc[s] = "update"
           /\ pc'[s] = pc[s] /\ phase'[s] = phase[s]) => db' = db
    ]_vars

\* C10 as stated: a read that started when no update was between its commit
\* and its cache clear, and during which no update committed, returns the
\* result of its query on the storage of the moment it returns.
C10_NoStaleReadAfterClear ==
  \A s \in AllSessions : (phase[s] = "ret" /\ ~overlap[s]) => fresh[s]
====
